---- MODULE Spec2Model ----
(***************************************************************************)
(* Model of the plugin host of libsinsp: sinsp_plugin (plugin.cpp,         *)
(* plugin.h) and sinsp_filter_check_plugin (plugin_filtercheck.cpp).  Four *)
(* specifications share the variables:                                     *)
(*   Spec        the lifecycle of one successfully created sinsp_plugin    *)
(*               (init, destroy, the capability operations, destructor);   *)
(*   SpecLoad    sinsp_plugin::create and resolve_dylib_symbols, driven by *)
(*               what the plugin's entry points answer at load time;       *)
(*   SpecParse   parse_field_name of a filter check over a field catalog;  *)
(*   SpecExtract extract of a filter check over a stream of events.        *)
(***************************************************************************)
EXTENDS Integers, Sequences, FiniteSets, TLC

\* ---------------------------------------------------------------- bounds
\* How many times the plugin's init entry point may be entered in one run.
MaxInitCalls == 2

\* ------------------------------------------------------------- constants
NULL == 0

CAP_SOURCING == "CAP_SOURCING"
CAP_EXTRACTION == "CAP_EXTRACTION"
CAP_PARSING == "CAP_PARSING"
Caps == {CAP_SOURCING, CAP_EXTRACTION, CAP_PARSING}

s_not_init_err == "plugin capability used before init"
s_init_twice_err == "plugin has been initialized twice"

\* the other error texts of init that the properties name
s_init_failed == "Could not initialize plugin"
s_schema_err == "init config schema error"

SS_PLUGIN_SUCCESS == "SS_PLUGIN_SUCCESS"
SS_PLUGIN_FAILURE == "SS_PLUGIN_FAILURE"

\* Symbols every loaded plugin exports (checked by the loader at create).
RequiredSymbols ==
    {"get_required_api_version", "get_version", "get_name", "get_description",
     "get_contact", "get_last_error", "init", "destroy"}

\* Optional symbols of the sourcing capability.
OptionalSymbols == {"get_progress", "event_to_string", "list_open_params"}

\* Symbols that make up a capability.
CapSymbols(caps) ==
    (IF CAP_SOURCING \in caps THEN {"open", "close", "next_batch"} ELSE {})
    \cup (IF CAP_EXTRACTION \in caps THEN {"get_fields", "extract_fields"} ELSE {})
    \cup (IF CAP_PARSING \in caps THEN {"parse_event"} ELSE {})

\* ------------------------------------------------- init schema and config
\* What get_init_schema may hand back: the schema text and the schema type.
\* A schema text is empty, a JSON text that is not an object, or a JSON
\* object schema listing its required properties.
SchemaTexts ==
    {[kind |-> "empty", required |-> {}],
     [kind |-> "notobject", required |-> {}],
     [kind |-> "object", required |-> {}],
     [kind |-> "object", required |-> {"k"}]}

SchemaTypes == {"SS_PLUGIN_SCHEMA_NONE", "SS_PLUGIN_SCHEMA_JSON", "SS_PLUGIN_SCHEMA_UNKNOWN"}

\* An init config string: empty, not JSON, or a JSON object with some keys.
Configs ==
    {[kind |-> "empty", keys |-> {}],
     [kind |-> "invalid", keys |-> {}],
     [kind |-> "object", keys |-> {}],
     [kind |-> "object", keys |-> {"k"}]}

EmptyObjectConfig == [kind |-> "object", keys |-> {}]

\* -------------------------------------------------------------- variables
VARIABLES
    mode,           \* "life" under Spec, "load" under SpecLoad, "parse", "extract"
    api,            \* m_handle->api: symbols exported, init schema behaviour
    alive,          \* the sinsp_plugin object exists (destructor not yet run)
    lib_loaded,     \* m_handle is loaded (plugin_unload not yet called)
    m_caps,         \* declared capability set
    m_inited,
    m_state,        \* plugin state handle, NULL when none
    last,           \* outcome of the most recent operation
    prev,           \* whether the operation before it was an init, and its result
    api_init_calls, \* times the plugin's init entry point was entered
    destroy_calls,  \* per state handle: times the destroy entry point got it
    init_entered,   \* plugin's init entered since construction / last destroy
    init_ok_ever,   \* some init call has returned true
    retired,        \* an init succeeded and destroy was called afterwards
    load,           \* outcome of sinsp_plugin::create (SpecLoad)
    asked,          \* what the plugin's entry points answered in that create
    fc,             \* the sinsp_filter_check_plugin object (SpecParse, SpecExtract)
    fenv,           \* what the filter check is bound to: plugin and inspector
    fc_last,        \* outcome of the most recent call on the filter check
    values          \* the caller's vector that extract fills

vars == <<mode, api, alive, lib_loaded, m_caps, m_inited, m_state, last, prev,
          api_init_calls, destroy_calls, init_entered, init_ok_ever, retired,
          load, asked, fc, fenv, fc_last, values>>

Handles == 1..MaxInitCalls

sinsp_syscall_event_source_name == "syscall"

PPME_PLUGINEVENT_E == "PPME_PLUGINEVENT_E"

\* libsinsp::events::all_event_set(), over a small universe of event codes
all_event_set == {"PPME_GENERIC_E", "PPME_SYSCALL_OPEN_E", PPME_PLUGINEVENT_E}

\* sinsp_no_event_source_idx, the source index of an event of no known source
sinsp_no_event_source_idx == -1

\* m_inspector->event_sources()
InspectorSources == <<sinsp_syscall_event_source_name, "s1", "s2">>

\* the events handed to extract
Events ==
    [source_idx : {sinsp_no_event_source_idx} \cup (0..(Len(InspectorSources) - 1)),
     type : all_event_set]

\* the events handed to the plugin object itself: one of no known source,
\* a plugin event of the source "s2" and a syscall event
LifeEvents ==
    { [source_idx |-> sinsp_no_event_source_idx, type |-> PPME_PLUGINEVENT_E],
      [source_idx |-> 2, type |-> PPME_PLUGINEVENT_E],
      [source_idx |-> 0, type |-> "PPME_SYSCALL_OPEN_E"] }

\* no event
NoEvt == [source_idx |-> sinsp_no_event_source_idx, type |-> "none"]

\* The record kept for one operation: its name, its result, the plugin entry
\* points it invoked, whether the init input carried a tables vtable, the
\* state handle the plugin's init returned, the config the plugin got (for
\* init) or the members of the input it got (for an event), the config the
\* caller passed and the event the caller passed.
OpRec(op, res, calls, tables, ret, conf, arg) ==
    [op |-> op, res |-> res, calls |-> calls, tables |-> tables,
     ret |-> ret, conf |-> conf, arg |-> arg, evt |-> NoEvt]

NoConf == [kind |-> "none", keys |-> {}]
NoOp == OpRec("none", "none", {}, FALSE, NULL, NoConf, NoConf)

\* create has not been called (or its result has been let go)
NoLoad ==
    [via |-> "none", ret |-> "none", failure |-> "none", errstr |-> "",
     calls |-> <<>>, m_name |-> "", version_valid |-> FALSE, m_caps |-> {},
     m_id |-> 0, m_event_source |-> "", m_fields |-> <<>>,
     m_extract_event_sources |-> {}, m_extract_event_codes |-> {},
     m_parse_event_sources |-> {}, m_parse_event_codes |-> {}]

\* the answers of a create that asked the plugin nothing
NoAsked ==
    [caps |-> {}, fields |-> [kind |-> "unused", entries |-> <<>>],
     xsources |-> [kind |-> "unused", elems |-> {}],
     xcodes |-> [kind |-> "unused", codes |-> {}],
     psources |-> [kind |-> "unused", elems |-> {}],
     pcodes |-> [kind |-> "unused", codes |-> {}]]

\* no filter check has been built
NoFc ==
    [m_field_id |-> 0, m_argstr |-> <<>>, m_arg_present |-> FALSE,
     m_arg_key |-> "NULL", m_arg_index |-> <<0, 0, 0>>,
     m_compatible_plugin_sources_bitmap |-> <<>>]

NoEnv ==
    [m_fields |-> <<>>, extract_event_sources |-> {}, extract_event_codes |-> {},
     event_sources |-> <<>>]

NoFcOp ==
    [op |-> "none", res |-> "none", err |-> "none", ret |-> 0, str |-> <<>>,
     evt |-> [source_idx |-> 0, type |-> "none"], calls |-> <<>>,
     answer |-> [rc |-> "SS_PLUGIN_FAILURE", res |-> <<>>]]

\* --------------------------------------------------------- pure functions

\* sinsp_plugin::get_init_schema: the schema text and type, or ("", NONE)
\* when the symbol is not exported.
get_init_schema(a) ==
    IF a.has_init_schema
    THEN [schema |-> a.schema, schema_type |-> a.schema_type]
    ELSE [schema |-> [kind |-> "empty", required |-> {}],
          schema_type |-> "SS_PLUGIN_SCHEMA_NONE"]

\* a validation that lets every config through
validate_init_config_json_schema_lenient(config, schema) ==
    [err |-> "none", conf |-> config]

\* sinsp_plugin::validate_init_config_json_schema: err is "none" when the
\* config passes, conf is the config as left for the plugin (an empty config
\* is stubbed to {}).
validate_init_config_json_schema(config, schema) ==
    IF schema.kind # "object"
    THEN [err |-> "get_init_schema did not return a json object", conf |-> config]
    ELSE LET conf == IF config.kind = "empty" THEN EmptyObjectConfig ELSE config
         IN  IF conf.kind = "invalid"
             THEN [err |-> "init config is not a valid json", conf |-> conf]
             ELSE IF ~(schema.required \subseteq conf.keys)
                  THEN [err |-> s_schema_err, conf |-> conf]
                  ELSE [err |-> "none", conf |-> conf]

validate_init_config_skip(config, a) == [err |-> "none", conf |-> config]

\* sinsp_plugin::validate_init_config
validate_init_config(config, a) ==
    LET s == get_init_schema(a)
    IN  IF s.schema.kind # "empty" /\ s.schema_type # "SS_PLUGIN_SCHEMA_NONE"
        THEN IF s.schema_type = "SS_PLUGIN_SCHEMA_JSON"
             THEN validate_init_config_json_schema(config, s.schema)
             ELSE [err |-> "get_init_schema returned an unknown schema type",
                   conf |-> config]
        ELSE [err |-> "none", conf |-> config]

\* the `if (m_inited)` test opening sinsp_plugin::init
init_twice_check_off(inited) == FALSE

init_twice_check(inited) == inited

\* the `if (!m_inited)` test opening every capability operation
not_init_check_off(inited) == FALSE

not_init_check(inited) == ~inited

\* init: whether the init input carries the tables-access vtable
init_tables_parsing_only(caps) == CAP_PARSING \in caps

init_tables(caps) == (caps \cap {CAP_PARSING, CAP_EXTRACTION}) # {}

\* init: m_state after the plugin's init entry point returned `state`
init_store_state_dropped(old, state) == old

init_store_state(old, state) == IF state # NULL THEN state ELSE old

\* destroy: m_state after destroy ran
destroy_state_kept(state, a) == state

destroy_state(state, a) ==
    IF state # NULL /\ "destroy" \in a.symbols THEN NULL ELSE state

\* a destroy that never invokes the plugin's destroy entry point
destroy_invoked_never(state, a) == FALSE

\* destroy: whether the plugin's destroy entry point is invoked
destroy_invoked(state, a) == state # NULL /\ "destroy" \in a.symbols

\* ------------------------------------------------------ lifecycle actions

\* What is remembered of the operation before the last one: for an init or a
\* destroy call its name and result, for any other operation only that it was
\* neither.
Brief(r) ==
    IF r.op \in {"init", "destroy"} THEN [op |-> r.op, res |-> r.res]
    ELSE [op |-> "other", res |-> "none"]

Record(r) == /\ last' = r
             /\ prev' = Brief(last)

\* sinsp_plugin::init(config, errstr)
init ==
    /\ mode = "life" /\ alive
    /\ \E config \in Configs :
       IF init_twice_check(m_inited)
       THEN /\ Record(OpRec("init", s_init_twice_err, {}, FALSE, NULL, NoConf, config))
            /\ UNCHANGED <<m_inited, m_state, api_init_calls, init_entered,
                           init_ok_ever>>
       ELSE IF "init" \notin api.symbols
       THEN /\ Record(OpRec("init", "init api symbol not found", {}, FALSE, NULL, NoConf, config))
            /\ UNCHANGED <<m_inited, m_state, api_init_calls, init_entered,
                           init_ok_ever>>
       ELSE LET v == validate_init_config(config, api)
                schema_calls == IF api.has_init_schema THEN {"get_init_schema"} ELSE {}
            IN  IF v.err # "none"
                THEN \* the validator throws, nothing else of init runs
                     /\ Record(OpRec("init", v.err, schema_calls, FALSE, NULL, NoConf, config))
                     /\ UNCHANGED <<m_inited, m_state, api_init_calls,
                                    init_entered, init_ok_ever>>
                ELSE /\ api_init_calls < MaxInitCalls
                     /\ \E rc \in {SS_PLUGIN_SUCCESS, SS_PLUGIN_FAILURE},
                           state \in {NULL, api_init_calls + 1} :
                        LET st == init_store_state(m_state, state)
                            err_calls == IF rc # SS_PLUGIN_SUCCESS /\ st # NULL
                                         THEN {"get_last_error"} ELSE {}
                        IN  /\ m_state' = st
                            /\ m_inited' = TRUE
                            /\ api_init_calls' = api_init_calls + 1
                            /\ init_entered' = TRUE
                            /\ init_ok_ever' = (init_ok_ever \/ rc = SS_PLUGIN_SUCCESS)
                            /\ Record(OpRec("init",
                                   IF rc = SS_PLUGIN_SUCCESS THEN "ok"
                                   ELSE s_init_failed,
                                   schema_calls \cup {"init"} \cup err_calls,
                                   init_tables(m_caps), state, v.conf, config))
    /\ UNCHANGED <<mode, api, alive, lib_loaded, m_caps, destroy_calls, retired, load,
                   asked, fc, fenv, fc_last, values>>

\* the body of sinsp_plugin::destroy(), shared with the destructor
destroy_body ==
    /\ m_inited' = FALSE
    /\ m_state' = destroy_state(m_state, api)
    /\ destroy_calls' = IF destroy_invoked(m_state, api)
                        THEN [destroy_calls EXCEPT ![m_state] = @ + 1]
                        ELSE destroy_calls
    /\ init_entered' = FALSE
    /\ retired' = (retired \/ init_ok_ever)

\* sinsp_plugin::destroy()
destroy ==
    /\ mode = "life" /\ alive
    /\ destroy_body
    /\ Record(OpRec("destroy", "ok",
                    IF destroy_invoked(m_state, api) THEN {"destroy"} ELSE {},
                    FALSE, NULL, NoConf, NoConf))
    /\ UNCHANGED <<mode, api, alive, lib_loaded, m_caps, api_init_calls,
                   init_ok_ever, load, asked, fc, fenv, fc_last, values>>

\* sinsp_plugin::~sinsp_plugin(): destroy(), then plugin_unload(m_handle)
Destructor ==
    /\ mode = "life" /\ alive
    /\ destroy_body
    /\ alive' = FALSE
    /\ lib_loaded' = FALSE
    /\ Record(OpRec("~sinsp_plugin", "ok",
                    IF destroy_invoked(m_state, api) THEN {"destroy"} ELSE {},
                    FALSE, NULL, NoConf, NoConf))
    /\ UNCHANGED <<mode, api, m_caps, api_init_calls, init_ok_ever, load,
                   asked, fc, fenv, fc_last, values>>

\* An operation that leaves the object as it is and only reports a result.
Report(op, res, calls) ==
    /\ Record(OpRec(op, res, calls, FALSE, NULL, NoConf, NoConf))
    /\ UNCHANGED <<mode, api, alive, lib_loaded, m_caps, m_inited, m_state,
                   api_init_calls, destroy_calls, init_entered, init_ok_ever,
                   retired, load, asked, fc, fenv, fc_last, values>>

\* sinsp_plugin::get_last_error()
get_last_error ==
    /\ mode = "life" /\ alive
    /\ IF not_init_check(m_inited)
       THEN Report("get_last_error", s_not_init_err, {})
       ELSE IF m_state # NULL
            THEN Report("get_last_error", "ok", {"get_last_error"})
            ELSE Report("get_last_error",
                        "Plugin handle or get_last_error function not defined", {})

\* sinsp_plugin::as_scap_source()
as_scap_source ==
    /\ mode = "life" /\ alive
    /\ IF not_init_check(m_inited)
       THEN Report("as_scap_source", s_not_init_err, {})
       ELSE IF CAP_SOURCING \notin m_caps
            THEN Report("as_scap_source",
                        "Can't create scap_source_plugin from a plugin without CAP_SOURCING capability.", {})
            ELSE Report("as_scap_source", "ok", {})

\* sinsp_plugin::get_progress(progress_pct); source_open is whether
\* m_scap_source_plugin.handle is set, which the capture engine writes.
get_progress ==
    /\ mode = "life" /\ alive
    /\ \E source_open \in BOOLEAN :
       IF not_init_check(m_inited)
       THEN Report("get_progress", s_not_init_err, {})
       ELSE IF "get_progress" \notin api.symbols \/ ~source_open
            THEN Report("get_progress", "ok", {})
            ELSE Report("get_progress", "ok", {"get_progress"})

\* sinsp_plugin::event_to_string(evt)
event_to_string ==
    /\ mode = "life" /\ alive
    /\ IF not_init_check(m_inited)
       THEN Report("event_to_string", s_not_init_err, {})
       ELSE IF m_state # NULL /\ "event_to_string" \in api.symbols
            THEN Report("event_to_string", "ok", {"event_to_string"})
            ELSE Report("event_to_string", "ok", {})

\* what the plugin's list_open_params entry point may answer
OpenParamsAnswers == {"failure", "empty", "not an array", "entry with no value", "array"}

\* sinsp_plugin::list_open_params()
list_open_params ==
    /\ mode = "life" /\ alive
    /\ IF not_init_check(m_inited)
       THEN Report("list_open_params", s_not_init_err, {})
       ELSE IF m_state # NULL /\ "list_open_params" \in api.symbols
            THEN \E answer \in OpenParamsAnswers :
                 CASE answer = "failure" ->
                        Report("list_open_params", "list_open_params has error",
                               {"list_open_params", "get_last_error"})
                   [] answer = "not an array" ->
                        Report("list_open_params",
                               "list_open_params returned a non-array JSON",
                               {"list_open_params"})
                   [] answer = "entry with no value" ->
                        Report("list_open_params",
                               "list_open_params has entry with no value",
                               {"list_open_params"})
                   [] OTHER -> Report("list_open_params", "ok", {"list_open_params"})
            ELSE Report("list_open_params", "ok", {})

\* Outcomes of a call through an entry point: the plugin's return code when
\* the symbol is exported; a call through a null function pointer is
\* undefined, it may crash or seem to return either code.
EntryOutcomes(sym) ==
    IF sym \in api.symbols THEN {"ok", "fail"} ELSE {"crash", "ok", "fail"}

\* An operation on an event that leaves the object as it is and hands the
\* plugin's entry point the event and an input structure with the given
\* members set.
ReportInput(op, evt, res, calls, members) ==
    /\ Record([OpRec(op, res, calls, FALSE, NULL,
                     [kind |-> "input", keys |-> members], NoConf)
                EXCEPT !.evt = evt])
    /\ UNCHANGED <<mode, api, alive, lib_loaded, m_caps, m_inited, m_state,
                   api_init_calls, destroy_calls, init_entered, init_ok_ever,
                   retired, load, asked, fc, fenv, fc_last, values>>

\* an extract input that carries the table writer as well
field_extract_input_with_writer ==
    {"num_fields", "fields", "owner", "get_owner_last_error", "table_reader",
     "table_writer"}

\* extract_fields: the members it sets in ss_plugin_field_extract_input
field_extract_input ==
    {"num_fields", "fields", "owner", "get_owner_last_error", "table_reader"}

\* parse_event: the members it sets in ss_plugin_event_parse_input
event_parse_input ==
    {"owner", "get_owner_last_error", "table_reader", "table_writer"}

\* sinsp_plugin::extract_fields(evt, num_fields, fields)
extract_fields ==
    /\ mode = "life" /\ alive
    /\ IF not_init_check(m_inited)
       THEN Report("extract_fields", s_not_init_err, {})
       ELSE \E evt \in LifeEvents, res \in EntryOutcomes("extract_fields") :
               ReportInput("extract_fields", evt, res, {"extract_fields"},
                           field_extract_input)

\* sinsp_plugin::parse_event(evt)
parse_event ==
    /\ mode = "life" /\ alive
    /\ IF not_init_check(m_inited)
       THEN Report("parse_event", s_not_init_err, {})
       ELSE \E evt \in LifeEvents, res \in EntryOutcomes("parse_event") :
               ReportInput("parse_event", evt, res, {"parse_event"},
                           event_parse_input)

\* sinsp_filter_check_plugin::sinsp_filter_check_plugin(plugin): the object
\* is built, or the constructor throws
s_not_extraction_err ==
    "Creating a sinsp_filter_check_plugin with a non extraction-capable plugin."

filter_check_plugin_ctor(caps) ==
    IF CAP_EXTRACTION \notin caps THEN s_not_extraction_err ELSE "filtercheck"

\* sinsp_plugin::new_filtercheck(plugin): new sinsp_filter_check_plugin(plugin)
new_filtercheck ==
    /\ mode = "life" /\ alive
    /\ Report("new_filtercheck", filter_check_plugin_ctor(m_caps), {})

\* The plugin the life cycle is about, as create yielded it: a parsing
\* plugin of it takes the plugin events of source "s2".
LifePlugin(caps) ==
    [NoLoad EXCEPT !.via = "api", !.ret = "plugin", !.m_name = "p",
                   !.version_valid = TRUE, !.m_caps = caps,
                   !.m_parse_event_sources =
                       IF CAP_PARSING \in caps THEN {"s2"} ELSE {},
                   !.m_parse_event_codes =
                       IF CAP_PARSING \in caps THEN {PPME_PLUGINEVENT_E} ELSE {}]

InitLife ==
    /\ mode = "life"
    /\ m_caps \in SUBSET Caps
    /\ \E opt \in {{}, OptionalSymbols}, hs \in BOOLEAN,
          s \in SchemaTexts, t \in SchemaTypes :
          api = [symbols |-> RequiredSymbols \cup CapSymbols(m_caps) \cup opt,
                 has_init_schema |-> hs,
                 schema |-> IF hs THEN s ELSE [kind |-> "empty", required |-> {}],
                 schema_type |-> IF hs THEN t ELSE "SS_PLUGIN_SCHEMA_NONE"]
    /\ alive = TRUE
    /\ lib_loaded = TRUE
    /\ m_inited = FALSE
    /\ m_state = NULL
    /\ last = NoOp
    /\ prev = Brief(NoOp)
    /\ api_init_calls = 0
    /\ destroy_calls = [h \in Handles |-> 0]
    /\ init_entered = FALSE
    /\ init_ok_ever = FALSE
    /\ retired = FALSE
    /\ load = LifePlugin(m_caps)
    /\ asked = NoAsked
    /\ fc = NoFc
    /\ fenv = NoEnv
    /\ fc_last = NoFcOp
    /\ values = <<>>

Next ==
    \/ init
    \/ destroy
    \/ Destructor
    \/ get_last_error
    \/ as_scap_source
    \/ get_progress
    \/ event_to_string
    \/ list_open_params
    \/ extract_fields
    \/ parse_event
    \/ new_filtercheck

Spec == InitLife /\ [][Next]_vars

\* ------------------------------------------------------------ load: data

\* How many entries the plugin's field JSON array may have.
MaxFields == 1

\* a look up table that knows one type name more
m_pt_lut_with_bogus ==
    [t \in {"string", "uint64", "reltime", "abstime", "bool", "ipv4addr",
            "ipv4net", "ipv6addr", "ipv6net", "ipnet", "bogus"} |->
        IF t = "string" THEN "PT_CHARBUF" ELSE "PT_UINT64"]

\* sinsp_plugin::m_pt_lut
m_pt_lut ==
    [t \in {"string", "uint64", "reltime", "abstime", "bool", "ipv4addr",
            "ipv4net", "ipv6addr", "ipv6net", "ipnet"} |->
        CASE t = "string" -> "PT_CHARBUF"
          [] t = "uint64" -> "PT_UINT64"
          [] t = "reltime" -> "PT_RELTIME"
          [] t = "abstime" -> "PT_ABSTIME"
          [] t = "bool" -> "PT_BOOL"
          [] t = "ipv4addr" -> "PT_IPV4ADDR"
          [] t = "ipv4net" -> "PT_IPV4NET"
          [] t = "ipv6addr" -> "PT_IPV6ADDR"
          [] t = "ipv6net" -> "PT_IPV6NET"
          [] t = "ipnet" -> "PT_IPNET"]

\* A JSON member that the code expects to be a boolean is written "null"
\* (absent), "true", "false" or "nonbool" (present, not a boolean).

\* One element of the field JSON array.  has_arg says whether the "arg"
\* member is there; properties is "null", "notarray", "nonstring" (an array
\* with a non-string element) or "array" with the strings in props.
FieldEntry(type, name, desc, isList, has_arg, isRequired, isIndex, isKey, properties, props) ==
    [type |-> type, name |-> name, desc |-> desc, isList |-> isList,
     has_arg |-> has_arg, isRequired |-> isRequired, isIndex |-> isIndex,
     isKey |-> isKey, properties |-> properties, props |-> props]

PlainEntry(type, name, desc) ==
    FieldEntry(type, name, desc, "null", FALSE, "null", "null", "null", "null", {})

\* The field entries plugins are taken to declare: a well-formed field with
\* every combination of the arg booleans, and entries broken in one place.
FieldEntries ==
    { FieldEntry("uint64", "f", "d", "null", TRUE, r, i, k, "null", {}) :
          r \in {"null", "true"}, i \in {"false", "true"}, k \in {"null", "true"} }
    \cup { PlainEntry("", "f", "d"), PlainEntry("bogus", "f", "d"),
           PlainEntry("string", "", "d"), PlainEntry("string", "f", ""),
           PlainEntry("string", "g", "d"),
           FieldEntry("uint64", "f", "d", "nonbool", FALSE, "null", "null", "null", "null", {}),
           FieldEntry("uint64", "f", "d", "true", TRUE, "nonbool", "null", "null", "null", {}),
           FieldEntry("uint64", "f", "d", "false", FALSE, "null", "null", "null", "notarray", {}),
           FieldEntry("uint64", "f", "d", "null", FALSE, "null", "null", "null", "nonstring", {}),
           FieldEntry("uint64", "f", "d", "null", FALSE, "null", "null", "null", "array",
                      {"hidden", "info", "conversation", "unknown"}) }

SeqsUpTo(S, n) == UNION { [1..k -> S] : k \in 0..n }

\* What get_fields may return: NULL, a text that is not a JSON array, or a
\* JSON array of entries.
FieldsAnswers ==
    {[kind |-> "null", entries |-> <<>>], [kind |-> "invalid", entries |-> <<>>]}
    \cup { [kind |-> "array", entries |-> es] : es \in SeqsUpTo(FieldEntries, MaxFields) }

NoFieldsAnswer == [kind |-> "unused", entries |-> <<>>]

\* What get_extract_event_sources / get_parse_event_sources may return.
SourcesAnswers ==
    {[kind |-> "nofn", elems |-> {}], [kind |-> "empty", elems |-> {}],
     [kind |-> "notarray", elems |-> {}], [kind |-> "badelem", elems |-> {}],
     [kind |-> "array", elems |-> {""}],
     [kind |-> "array", elems |-> {sinsp_syscall_event_source_name}],
     [kind |-> "array", elems |-> {"s2"}]}

\* What get_extract_event_types / get_parse_event_types may return.
CodesAnswers ==
    {[kind |-> "nofn", codes |-> {}], [kind |-> "null", codes |-> {}],
     [kind |-> "types", codes |-> {"PPME_SYSCALL_OPEN_E"}]}

NoSourcesAnswer == [kind |-> "unused", elems |-> {}]
NoCodesAnswer == [kind |-> "unused", codes |-> {}]

\* What get_id / get_event_source answer (has: both symbols are exported).
SourcingAnswers ==
    {[has |-> FALSE, id |-> 0, source |-> ""], [has |-> TRUE, id |-> 0, source |-> "s1"],
     [has |-> TRUE, id |-> 7, source |-> ""], [has |-> TRUE, id |-> 7, source |-> "s1"]}

NoSourcingAnswer == [has |-> FALSE, id |-> 0, source |-> "unused"]

\* Plugin version strings, as their dot-separated numeric components.
VersionStrings == {<<>>, <<1, 2>>, <<1, 2, 3>>}

\* ------------------------------------------------------- load: functions

\* sinsp_version(version_str).m_valid
sinsp_version_valid(v) == Len(v) = 3

\* a test that takes every source
is_source_compatible_any(sources, source) == TRUE

\* sinsp_plugin::is_source_compatible
is_source_compatible(sources, source) == sources = {} \/ source \in sources

\* resolve_dylib_field_arg without its closing test of isRequired
resolve_dylib_field_arg_no_required_test(e, flags) ==
    IF ~e.has_arg THEN [err |-> "none", flags |-> flags]
    ELSE IF "nonbool" \in {e.isRequired, e.isIndex, e.isKey}
    THEN [err |-> "property is not boolean", flags |-> flags]
    ELSE [err |-> "none",
          flags |-> flags
              \cup (IF e.isRequired = "true" THEN {"EPF_ARG_REQUIRED"} ELSE {})
              \cup (IF e.isIndex = "true" THEN {"EPF_ARG_INDEX", "EPF_ARG_ALLOWED"} ELSE {})
              \cup (IF e.isKey = "true" THEN {"EPF_ARG_KEY", "EPF_ARG_ALLOWED"} ELSE {})]

\* sinsp_plugin::resolve_dylib_field_arg: the flags after reading the "arg"
\* member, or the error it throws.
resolve_dylib_field_arg(e, flags) ==
    IF ~e.has_arg THEN [err |-> "none", flags |-> flags]
    ELSE IF e.isRequired = "nonbool"
    THEN [err |-> "isRequired property is not boolean", flags |-> flags]
    ELSE LET f1 == IF e.isRequired = "true" THEN flags \cup {"EPF_ARG_REQUIRED"} ELSE flags
         IN  IF e.isIndex = "nonbool"
             THEN [err |-> "isIndex property is not boolean", flags |-> f1]
             ELSE LET f2 == IF e.isIndex = "true"
                            THEN f1 \cup {"EPF_ARG_INDEX", "EPF_ARG_ALLOWED"} ELSE f1
                  IN  IF e.isKey = "nonbool"
                      THEN [err |-> "isKey property is not boolean", flags |-> f2]
                      ELSE LET f3 == IF e.isKey = "true"
                                     THEN f2 \cup {"EPF_ARG_KEY", "EPF_ARG_ALLOWED"} ELSE f2
                           IN  IF "EPF_ARG_REQUIRED" \in f3
                                  /\ ~("EPF_ARG_INDEX" \in f3 \/ "EPF_ARG_KEY" \in f3)
                               THEN [err |-> "arg has isRequired true, but none of isKey nor isIndex is true",
                                     flags |-> f3]
                               ELSE [err |-> "none", flags |-> f3]

\* the flags that the "properties" member adds
properties_flags(props) ==
    (IF "hidden" \in props THEN {"EPF_TABLE_ONLY"} ELSE {})
    \cup (IF "info" \in props THEN {"EPF_INFO"} ELSE {})
    \cup (IF "conversation" \in props THEN {"EPF_CONVERSATION"} ELSE {})

\* resolve_dylib_symbols, the body of the loop over the field JSON array:
\* the filtercheck_field_info built from one entry, or the error thrown.
resolve_field(e) ==
    LET none == [m_name |-> "", m_type |-> "", m_flags |-> {}]
    IN
    IF e.type = "" THEN [err |-> "field JSON entry has no type", tf |-> none]
    ELSE IF e.name = "" THEN [err |-> "field JSON entry has no name", tf |-> none]
    ELSE IF e.desc = "" THEN [err |-> "field JSON entry has no desc", tf |-> none]
    ELSE IF e.type \notin DOMAIN m_pt_lut THEN [err |-> "invalid field type", tf |-> none]
    ELSE IF e.isList = "nonbool" THEN [err |-> "isList property is not boolean", tf |-> none]
    ELSE LET f0 == IF e.isList = "true" THEN {"EPF_IS_LIST"} ELSE {}
             a == resolve_dylib_field_arg(e, f0)
         IN  IF a.err # "none" THEN [err |-> a.err, tf |-> none]
             ELSE IF e.properties = "notarray"
             THEN [err |-> "properties property is not array", tf |-> none]
             ELSE IF e.properties = "nonstring"
             THEN [err |-> "properties value is not string", tf |-> none]
             ELSE [err |-> "none",
                   tf |-> [m_name |-> e.name, m_type |-> m_pt_lut[e.type],
                           m_flags |-> a.flags \cup
                               (IF e.properties = "array"
                                THEN properties_flags(e.props) ELSE {})]]

\* resolve_dylib_symbols, the loop over the field JSON array: m_fields, or
\* the error of the first entry that throws.
RECURSIVE resolve_fields(_, _)
resolve_fields(entries, acc) ==
    IF entries = <<>> THEN [err |-> "none", m_fields |-> acc]
    ELSE LET r == resolve_field(Head(entries))
         IN  IF r.err # "none" THEN [err |-> r.err, m_fields |-> <<>>]
             ELSE resolve_fields(Tail(entries), Append(acc, r.tf))

\* resolve_dylib_symbols, the EXTRACTION block up to the end of the loop
resolve_get_fields(f) ==
    IF f.kind = "null" THEN [err |-> "get_fields returned a null string", m_fields |-> <<>>]
    ELSE IF f.kind = "invalid"
    THEN [err |-> "get_fields returned an invalid JSON", m_fields |-> <<>>]
    ELSE resolve_fields(f.entries, <<>>)

\* resolve_dylib_sources_codes defaulting to the full event set whatever the
\* sources are
resolve_dylib_sources_codes_all_events(get_sources, get_codes, caps, event_source) ==
    IF get_sources.kind \in {"notarray", "badelem"}
    THEN [err |-> "did not return a json array", sources |-> {}, codes |-> {}]
    ELSE LET s0 == IF get_sources.kind = "array" THEN get_sources.elems \ {""} ELSE {}
             sources == IF CAP_SOURCING \in caps /\ event_source # ""
                        THEN s0 \cup {event_source} ELSE s0
             c0 == IF get_codes.kind = "types" THEN get_codes.codes ELSE {}
         IN  [err |-> "none", sources |-> sources,
              codes |-> IF c0 = {} THEN all_event_set ELSE c0]

\* sinsp_plugin::resolve_dylib_sources_codes
resolve_dylib_sources_codes(get_sources, get_codes, caps, event_source) ==
    IF get_sources.kind \in {"notarray", "badelem"}
    THEN [err |-> "did not return a json array", sources |-> {}, codes |-> {}]
    ELSE LET s0 == IF get_sources.kind = "array" THEN get_sources.elems \ {""} ELSE {}
             sources == IF CAP_SOURCING \in caps /\ event_source # ""
                        THEN s0 \cup {event_source} ELSE s0
             c0 == IF get_codes.kind = "types" THEN get_codes.codes ELSE {}
             codes == IF c0 = {}
                      THEN IF is_source_compatible(sources, sinsp_syscall_event_source_name)
                           THEN all_event_set ELSE {PPME_PLUGINEVENT_E}
                      ELSE c0
         IN  [err |-> "none", sources |-> sources, codes |-> codes]

\* the entry points resolve_dylib_sources_codes invokes
sources_codes_calls(get_sources, get_codes, sym_sources, sym_codes) ==
    (IF get_sources.kind # "nofn" THEN <<sym_sources>> ELSE <<>>)
    \o (IF get_sources.kind \in {"notarray", "badelem"} \/ get_codes.kind = "nofn"
        THEN <<>> ELSE <<sym_codes>>)

\* the outcome of a create that did not yield a plugin
LoadFailed(via, ret, failure, errstr, calls) ==
    [via |-> via, ret |-> ret, failure |-> failure, errstr |-> errstr,
     calls |-> calls, m_name |-> "", version_valid |-> FALSE, m_caps |-> {},
     m_id |-> 0, m_event_source |-> "", m_fields |-> <<>>,
     m_extract_event_sources |-> {}, m_extract_event_codes |-> {},
     m_parse_event_sources |-> {}, m_parse_event_codes |-> {}]

\* a version check that comes after the descriptive entry points were read
required_api_version_calls_after_describe ==
    <<"get_name", "get_description", "get_contact", "get_version",
      "get_required_api_version">>

\* the entry points invoked by the first step of resolve_dylib_symbols, the
\* check of the required api version
required_api_version_calls ==
    <<"get_required_api_version">>

\* sinsp_plugin::resolve_dylib_symbols, run on a loaded handle whose entry
\* points answer as given; ret is "plugin" (true), "nullptr" (false, errstr
\* set) or "exception" (a sinsp_exception leaves create).
resolve_dylib_symbols(via, api_version_ok, symbols_ok, name, version, caps, sourcing, fields, xsources, xcodes, psources, pcodes) ==
    LET c1 == required_api_version_calls
        c2 == c1 \o <<"get_name", "get_description", "get_contact", "get_version">>
        use_src == CAP_SOURCING \in caps /\ sourcing.has /\ sourcing.id # 0
        c3 == c2 \o (IF CAP_SOURCING \in caps /\ sourcing.has
                     THEN <<"get_id">> \o (IF sourcing.id # 0
                                           THEN <<"get_id", "get_event_source">>
                                           ELSE <<>>)
                     ELSE <<>>)
        m_id_ == IF use_src THEN sourcing.id ELSE 0
        m_event_source_ == IF use_src THEN sourcing.source ELSE ""
        fr == resolve_get_fields(fields)
        c4 == c3 \o <<"get_fields">>
        xr == resolve_dylib_sources_codes(xsources, xcodes, caps, m_event_source_)
        c5 == c4 \o sources_codes_calls(xsources, xcodes,
                        "get_extract_event_sources", "get_extract_event_types")
        cx == IF CAP_EXTRACTION \in caps THEN c5 ELSE c3
        pr == resolve_dylib_sources_codes(psources, pcodes, caps, m_event_source_)
        c6 == cx \o sources_codes_calls(psources, pcodes,
                        "get_parse_event_sources", "get_parse_event_types")
    IN
    IF ~api_version_ok
    THEN LoadFailed(via, "nullptr", "api version", "api version mismatch", c1)
    ELSE IF ~symbols_ok
    THEN LoadFailed(via, "nullptr", "missing symbol", "required symbol not found", c1)
    ELSE IF ~sinsp_version_valid(version)
    THEN LoadFailed(via, "nullptr", "invalid version",
                    "Plugin provided an invalid version string", c2)
    ELSE IF CAP_EXTRACTION \in caps /\ fr.err # "none"
    THEN LoadFailed(via, "exception", fr.err, "", c4)
    ELSE IF CAP_EXTRACTION \in caps /\ xr.err # "none"
    THEN LoadFailed(via, "exception", xr.err, "", c5)
    ELSE IF CAP_PARSING \in caps /\ pr.err # "none"
    THEN LoadFailed(via, "exception", pr.err, "", c6)
    ELSE [via |-> via, ret |-> "plugin", failure |-> "none", errstr |-> "",
          calls |-> IF CAP_PARSING \in caps THEN c6 ELSE cx,
          m_name |-> name, version_valid |-> TRUE, m_caps |-> caps,
          m_id |-> m_id_, m_event_source |-> m_event_source_,
          m_fields |-> IF CAP_EXTRACTION \in caps THEN fr.m_fields ELSE <<>>,
          m_extract_event_sources |-> IF CAP_EXTRACTION \in caps THEN xr.sources ELSE {},
          m_extract_event_codes |-> IF CAP_EXTRACTION \in caps THEN xr.codes ELSE {},
          m_parse_event_sources |-> IF CAP_PARSING \in caps THEN pr.sources ELSE {},
          m_parse_event_codes |-> IF CAP_PARSING \in caps THEN pr.codes ELSE {}]

\* -------------------------------------------------------- load: actions

\* sinsp_plugin::create, both overloads: load the handle (plugin_load for a
\* path, plugin_load_api for a vtable), build the object, resolve it.  An
\* entry point's answer is drawn only when the code gets to call it.
create_body(via) ==
    /\ mode = "load"
    /\ load.ret = "none"
    /\ \E load_ok \in BOOLEAN :
       IF ~load_ok
       THEN /\ load' = LoadFailed(via, "nullptr", "load", "loader error", <<>>)
            /\ asked' = NoAsked
       ELSE \E api_version_ok \in BOOLEAN :
            \E symbols_ok \in (IF api_version_ok THEN BOOLEAN ELSE {FALSE}) :
            \E name \in (IF symbols_ok THEN {"", "p"} ELSE {""}),
               version \in (IF symbols_ok THEN VersionStrings ELSE {<<>>}) :
            \E caps \in (IF symbols_ok /\ sinsp_version_valid(version)
                         THEN SUBSET Caps ELSE {{}}) :
            \E sourcing \in (IF CAP_SOURCING \in caps THEN SourcingAnswers
                             ELSE {NoSourcingAnswer}),
               fields \in (IF CAP_EXTRACTION \in caps THEN FieldsAnswers
                           ELSE {NoFieldsAnswer}) :
            \E xsources \in (IF CAP_EXTRACTION \in caps
                                /\ resolve_get_fields(fields).err = "none"
                             THEN SourcesAnswers ELSE {NoSourcesAnswer}) :
            \E xcodes \in (IF xsources.kind \in {"nofn", "empty", "array"}
                           THEN CodesAnswers ELSE {NoCodesAnswer}) :
            \E psources \in (IF CAP_PARSING \in caps
                                /\ (CAP_EXTRACTION \in caps => xcodes.kind # "unused")
                             THEN SourcesAnswers ELSE {NoSourcesAnswer}) :
            \E pcodes \in (IF psources.kind \in {"nofn", "empty", "array"}
                           THEN CodesAnswers ELSE {NoCodesAnswer}) :
               /\ load' = resolve_dylib_symbols(via, api_version_ok, symbols_ok,
                              name, version, caps, sourcing, fields,
                              xsources, xcodes, psources, pcodes)
               /\ asked' = [caps |-> caps, fields |-> fields,
                            xsources |-> xsources, xcodes |-> xcodes,
                            psources |-> psources, pcodes |-> pcodes]
    /\ UNCHANGED <<mode, api, alive, lib_loaded, m_caps, m_inited, m_state,
                   last, prev, api_init_calls, destroy_calls, init_entered,
                   init_ok_ever, retired, fc, fenv, fc_last, values>>

\* create(const std::string& filepath, treg, errstr)
create_path == create_body("path")

\* create(const plugin_api* api, treg, errstr)
create_api == create_body("api")

\* The caller lets go of what create gave back (the shared_ptr, if any, is
\* dropped) and may call create again.
release ==
    /\ mode = "load"
    /\ load.ret # "none"
    /\ load' = NoLoad
    /\ asked' = NoAsked
    /\ UNCHANGED <<mode, api, alive, lib_loaded, m_caps, m_inited, m_state,
                   last, prev, api_init_calls, destroy_calls, init_entered,
                   init_ok_ever, retired, fc, fenv, fc_last, values>>

InitLoad ==
    /\ mode = "load"
    /\ api = [symbols |-> RequiredSymbols, has_init_schema |-> FALSE,
              schema |-> [kind |-> "empty", required |-> {}],
              schema_type |-> "SS_PLUGIN_SCHEMA_NONE"]
    /\ alive = FALSE
    /\ lib_loaded = FALSE
    /\ m_caps = {}
    /\ m_inited = FALSE
    /\ m_state = NULL
    /\ last = NoOp
    /\ prev = Brief(NoOp)
    /\ api_init_calls = 0
    /\ destroy_calls = [h \in Handles |-> 0]
    /\ init_entered = FALSE
    /\ init_ok_ever = FALSE
    /\ retired = FALSE
    /\ load = NoLoad
    /\ asked = NoAsked
    /\ fc = NoFc
    /\ fenv = NoEnv
    /\ fc_last = NoFcOp
    /\ values = <<>>

NextLoad ==
    \/ create_path
    \/ create_api
    \/ release

SpecLoad == InitLoad /\ [][NextLoad]_vars

\* ------------------------------------------------ filter check: field names

\* Longest argument, in characters, of the field references tried.
MaxArgLen == 2

\* A string is the sequence of its characters.
npos == -1

\* std::string::find_first_of(c, 0): the position, from 0, of the first c
find_first_of(s, c) ==
    IF \E i \in 1..Len(s) : s[i] = c
    THEN (CHOOSE i \in 1..Len(s) : s[i] = c /\ \A j \in 1..(i - 1) : s[j] # c) - 1
    ELSE npos

\* std::string::substr(pos, n); n = npos takes the rest of the string
substr(s, pos, n) ==
    IF n = npos \/ pos + n > Len(s) THEN SubSeq(s, pos + 1, Len(s))
    ELSE SubSeq(s, pos + 1, pos + n)

isdigit(c) == c \in {"0", "1", "2", "3", "4", "5", "6", "7", "8", "9"}

DigitValue(c) ==
    CASE c = "0" -> 0 [] c = "1" -> 1 [] c = "2" -> 2 [] c = "3" -> 3
      [] c = "4" -> 4 [] c = "5" -> 5 [] c = "6" -> 6 [] c = "7" -> 7
      [] c = "8" -> 8 [] c = "9" -> 9

\* A 64-bit unsigned value is kept as three limbs <<high, middle, low>> in
\* this base, so that no intermediate result leaves the checker's integers.
LimbBase == 10000000

\* ULONG_MAX, 18446744073709551615
ULONG_MAX == <<184467, 4407370, 9551615>>

\* limb-wise v <= w
LimbsLeq(v, w) ==
    \/ v[1] < w[1]
    \/ v[1] = w[1] /\ v[2] < w[2]
    \/ v[1] = w[1] /\ v[2] = w[2] /\ v[3] <= w[3]

\* std::stoul on a string of digits: the value, digit by digit from the
\* left, or out_of_range once the value passes ULONG_MAX
RECURSIVE stoul_from(_, _, _)
stoul_from(s, i, v) ==
    IF i > Len(s) THEN [err |-> "none", value |-> v]
    ELSE LET lo == v[3] * 10 + DigitValue(s[i])
             mid == v[2] * 10 + lo \div LimbBase
             hi == v[1] * 10 + mid \div LimbBase
             w == <<hi, mid % LimbBase, lo % LimbBase>>
         IN  IF LimbsLeq(w, ULONG_MAX) THEN stoul_from(s, i + 1, w)
             ELSE [err |-> "out_of_range", value |-> v]

stoul(s) == stoul_from(s, 1, <<0, 0, 0>>)

\* sinsp_filter_check::parse_field_name of the base class: the field whose
\* name starts the string, the longest such name winning; res is the length
\* of the name, or -1 when no field matches
sinsp_filter_check_parse_field_name(fields, str, field_id) ==
    LET IsPrefix(n) == Len(n) <= Len(str) /\ SubSeq(str, 1, Len(n)) = n
        hits == { j \in DOMAIN fields : IsPrefix(fields[j].m_name) }
    IN  IF hits = {} THEN [res |-> -1, m_field_id |-> field_id]
        ELSE LET j == CHOOSE k \in hits :
                        \A l \in hits : Len(fields[l].m_name) < Len(fields[k].m_name)
                                        \/ (Len(fields[l].m_name) = Len(fields[k].m_name) /\ k <= l)
             IN  [res |-> Len(fields[j].m_name), m_field_id |-> j - 1]

\* extract_arg_index that takes any string of digits
extract_arg_index_leading_zero_ok(f) ==
    IF f.m_argstr # <<>> /\ \A j \in 1..Len(f.m_argstr) : isdigit(f.m_argstr[j])
    THEN LET n == stoul(f.m_argstr)
         IN  IF n.err = "none" THEN [fc |-> [f EXCEPT !.m_arg_index = n.value], err |-> "none"]
             ELSE [fc |-> f, err |-> " has an invalid index argument not representable on 64 bit: "]
    ELSE [fc |-> f, err |-> " has an invalid index argument not composed only by digits: "]

\* sinsp_filter_check_plugin::extract_arg_index: the object after the call
\* and the message of the exception thrown, if any
extract_arg_index(f) ==
    LET length == Len(f.m_argstr)
        starts_0 == length = 0 \/ (length > 1 /\ f.m_argstr[1] = "0")
        not_digits == \E j \in 1..length : ~isdigit(f.m_argstr[j])
        is_valid == ~starts_0 /\ ~not_digits
    IN  IF is_valid
        THEN LET n == stoul(f.m_argstr)
             IN  IF n.err = "none"
                 THEN [fc |-> [f EXCEPT !.m_arg_index = n.value], err |-> "none"]
                 ELSE [fc |-> f,
                       err |-> " has an invalid index argument not representable on 64 bit: "]
        ELSE [fc |-> f,
              err |-> IF not_digits
                      THEN " has an invalid index argument not composed only by digits: "
                      ELSE " has an invalid index argument starting with 0: "]

\* extract_arg_key that leaves m_arg_key as it is
extract_arg_key_unset(f) == f

\* sinsp_filter_check_plugin::extract_arg_key: m_arg_key points into m_argstr
extract_arg_key(f) == [f EXCEPT !.m_arg_key = "m_argstr"]

\* a parse that leaves by exception
Thrown(f, err) == [fc |-> f, res |-> "exception", err |-> err, ret |-> 0]

\* a test that lets every field take an argument
arg_allowed_or_required_always(flags) == TRUE

\* parse_field_name, the test made of a field that is given an argument
arg_allowed_or_required(flags) ==
    "EPF_ARG_ALLOWED" \in flags \/ "EPF_ARG_REQUIRED" \in flags

\* a test that lets every field go without an argument
arg_required_never(flags) == FALSE

\* parse_field_name, the test made of a field that is given no argument
arg_required(flags) == "EPF_ARG_REQUIRED" \in flags

\* sinsp_filter_check_plugin::parse_field_name(str, alloc_state,
\* needed_for_filtering): the object after the call, whether it returned or
\* threw, the message thrown and the value returned
parse_field_name(f, fields, str) ==
    LET base == sinsp_filter_check_parse_field_name(fields, str, f.m_field_id)
        f0 == [f EXCEPT !.m_field_id = base.m_field_id, !.m_argstr = <<>>]
    IN
    IF base.res = -1 THEN [fc |-> f0, res |-> "ok", err |-> "none", ret |-> -1]
    ELSE
    LET f1 == [f0 EXCEPT !.m_arg_present = FALSE, !.m_arg_key = "NULL",
                         !.m_arg_index = <<0, 0, 0>>]
        flags == fields[f1.m_field_id + 1].m_flags
        val_end == find_first_of(str, " ")
        val == IF val_end # npos THEN substr(str, 0, val_end) ELSE str
        pos1 == find_first_of(val, "[")
        argstart == pos1 + 1
        rest == substr(val, argstart, npos)
        pos2 == find_first_of(rest, "]")
        f2 == [f1 EXCEPT !.m_argstr = substr(rest, 0, pos2)]
        f3 == [f2 EXCEPT !.m_arg_present = TRUE]
        ix == IF "EPF_ARG_INDEX" \in flags THEN extract_arg_index(f3)
              ELSE [fc |-> f3, err |-> "none"]
        f4 == IF "EPF_ARG_KEY" \in flags THEN extract_arg_key(ix.fc) ELSE ix.fc
    IN
    IF pos1 # npos
    THEN IF argstart < Len(val) /\ pos2 # npos
         THEN IF ~arg_allowed_or_required(flags)
              THEN Thrown(f2, " does not allow nor require an argument but one is provided: ")
              ELSE IF ix.err # "none" THEN Thrown(ix.fc, ix.err)
              ELSE [fc |-> f4, res |-> "ok", err |-> "none", ret |-> pos1 + pos2 + 2]
         ELSE Thrown(IF argstart < Len(val) THEN [f1 EXCEPT !.m_argstr = rest] ELSE f1,
                     " has a badly-formatted argument")
    ELSE IF arg_required(flags)
         THEN Thrown(f1, " requires an argument but none provided")
         ELSE [fc |-> f1, res |-> "ok", err |-> "none", ret |-> base.res]

\* ---------------------------------------------- filter check: parse actions

\* the characters arguments are made of
ArgChars == {"0", "1", "k", " ", "]"}

\* the digits of ULONG_MAX and of ULONG_MAX + 1
ULongMaxDigits ==
    <<"1", "8", "4", "4", "6", "7", "4", "4", "0", "7", "3", "7", "0", "9", "5",
      "5", "1", "6", "1", "5">>

ULongMaxPlusOneDigits ==
    <<"1", "8", "4", "4", "6", "7", "4", "4", "0", "7", "3", "7", "0", "9", "5",
      "5", "1", "6", "1", "6">>

\* what may stand between the brackets
Args == SeqsUpTo(ArgChars, MaxArgLen) \cup {ULongMaxDigits, ULongMaxPlusOneDigits}

\* what may follow the field name in a field reference: nothing, an argument
\* in brackets, an argument whose bracket is never closed, or a bracket after
\* the space that ends the token
Tails ==
    {<<>>, <<" ", "[", "1", "]">>}
    \cup { <<"[">> \o a \o <<"]">> : a \in Args }
    \cup { <<"[">> \o a : a \in Args }

\* the field references handed to parse_field_name: the field f with every
\* tail, the plain field g and an unknown name with and without an argument
FieldReferences ==
    { <<"f">> \o t : t \in Tails }
    \cup { <<n>> \o t : n \in {"g", "h"}, t \in {<<>>, <<"[", "1", "]">>, <<"[", "k">>} }

\* the name of a field as a string of characters (names are one character)
NameChars(tf) == [tf EXCEPT !.m_name = <<tf.m_name>>]

\* the filtercheck_field_info entries resolve_dylib_symbols builds from the
\* well-formed field entries
CatalogFields ==
    { resolve_field(e).tf : e \in { x \in FieldEntries : resolve_field(x).err = "none" } }

\* the catalogs the filter check is built on: a field f and the plain field g
Catalogs ==
    { <<NameChars(a), NameChars(b)>> :
        a \in { x \in CatalogFields : x.m_name = "f" },
        b \in { x \in CatalogFields : x.m_name = "g" } }

FcOp(op, r, str) ==
    [op |-> op, res |-> r.res, err |-> r.err, ret |-> r.ret, str |-> str,
     evt |-> [source_idx |-> 0, type |-> "none"], calls |-> <<>>,
     answer |-> [rc |-> "SS_PLUGIN_FAILURE", res |-> <<>>]]

\* the filter engine calls parse_field_name on the filter check
filter_check_parse_field_name ==
    /\ mode = "parse"
    /\ \E str \in FieldReferences :
          LET r == parse_field_name(fc, fenv.m_fields, str)
          IN  /\ fc' = r.fc
              /\ fc_last' = FcOp("parse_field_name", r, str)
    /\ UNCHANGED <<mode, api, alive, lib_loaded, m_caps, m_inited, m_state,
                   last, prev, api_init_calls, destroy_calls, init_entered,
                   init_ok_ever, retired, load, asked, fenv, values>>

\* sinsp_filter_check_plugin(plugin) built on an extraction plugin's catalog
InitParse ==
    /\ mode = "parse"
    /\ api = [symbols |-> RequiredSymbols \cup CapSymbols({CAP_EXTRACTION}),
              has_init_schema |-> FALSE,
              schema |-> [kind |-> "empty", required |-> {}],
              schema_type |-> "SS_PLUGIN_SCHEMA_NONE"]
    /\ alive = TRUE
    /\ lib_loaded = TRUE
    /\ m_caps = {CAP_EXTRACTION}
    /\ m_inited = FALSE
    /\ m_state = NULL
    /\ last = NoOp
    /\ prev = Brief(NoOp)
    /\ api_init_calls = 0
    /\ destroy_calls = [h \in Handles |-> 0]
    /\ init_entered = FALSE
    /\ init_ok_ever = FALSE
    /\ retired = FALSE
    /\ load = NoLoad
    /\ asked = NoAsked
    /\ fc = NoFc
    /\ \E c \in Catalogs : fenv = [NoEnv EXCEPT !.m_fields = c]
    /\ fc_last = NoFcOp
    /\ values = <<>>

NextParse == filter_check_parse_field_name

SpecParse == InitParse /\ [][NextParse]_vars

\* ------------------------------------------------- filter check: extraction

\* How many values the plugin may hand back for one field.
MaxResLen == 2

\* sizeof(uint64_t), sizeof(uint32_t)
SizeofUint64 == 8
SizeofUint32 == 4

\* the member of the result union the plugin fills for a field type
ResMember(type) ==
    CASE type \in {"PT_UINT64", "PT_RELTIME", "PT_ABSTIME"} -> "u64"
      [] type \in {"PT_IPV4NET", "PT_IPV6ADDR", "PT_IPV6NET", "PT_IPNET"} -> "buf"
      [] type = "PT_CHARBUF" -> "str"
      [] type \in {"PT_BOOL", "PT_IPV4ADDR"} -> "u32"
      [] OTHER -> "none"

\* the values a plugin may put in a member of the result union
ResItems(member) ==
    CASE member = "u64" -> {[u64 |-> 7], [u64 |-> 8]}
      [] member = "u32" -> {[u32 |-> 1]}
      [] member = "str" -> {[str |-> <<>>], [str |-> <<"a", "b">>]}
      [] member = "buf" -> {[len |-> 4, ptr |-> "b4"], [len |-> 16, ptr |-> "b16"]}
      [] OTHER -> {}

\* what the plugin's extract_fields entry point may answer for one field:
\* its return code and the res_len values it wrote (a failing plugin is
\* taken to have written one value)
ExtractAnswers(type) ==
    [rc : {SS_PLUGIN_SUCCESS}, res : SeqsUpTo(ResItems(ResMember(type)), MaxResLen)]
    \cup [rc : {SS_PLUGIN_FAILURE},
          res : { <<i>> : i \in {CHOOSE x \in ResItems(ResMember(type)) : TRUE} }]

NoExtractAnswer == [rc |-> SS_PLUGIN_FAILURE, res |-> <<>>]

\* a test that takes every event type
code_compatible_any(codes, type) == TRUE

\* extract, the test of the event type: extract_event_codes().contains(type)
code_compatible(codes, type) == type \in codes

\* a loop that fills the bitmap with false and looks up the event's own
\* source only
RECURSIVE populate_bitmap_last_only(_, _, _)
populate_bitmap_last_only(bitmap, source_idx, sources) ==
    IF Len(bitmap) <= source_idx
    THEN populate_bitmap_last_only(
             Append(bitmap, Len(bitmap) = source_idx
                            /\ is_source_compatible(sources, InspectorSources[source_idx + 1])),
             source_idx, sources)
    ELSE bitmap

\* extract, the loop that fills the bitmap up to the event's source index
RECURSIVE populate_bitmap(_, _, _)
populate_bitmap(bitmap, source_idx, sources) ==
    IF Len(bitmap) <= source_idx
    THEN LET src_idx == Len(bitmap)
             source == InspectorSources[src_idx + 1]
             compatible == is_source_compatible(sources, source)
         IN  populate_bitmap(Append(bitmap, compatible), source_idx, sources)
    ELSE bitmap

\* a loop body that takes every result for a 64-bit number
extract_value_all_uint64(type, item) == [len |-> SizeofUint64, ptr |-> item]

\* extract, the body of the loop over the results: one extract_value_t
extract_value(type, item) ==
    CASE ResMember(type) = "u64" -> [len |-> SizeofUint64, ptr |-> item]
      [] ResMember(type) = "buf" -> [len |-> item.len, ptr |-> item.ptr]
      [] ResMember(type) = "str" -> [len |-> Len(item.str), ptr |-> item]
      [] ResMember(type) = "u32" -> [len |-> SizeofUint32, ptr |-> item]

\* what extract hands to sinsp_plugin::extract_fields
ExtractField(f, fields) ==
    [field_id |-> f.m_field_id,
     field |-> fields[f.m_field_id + 1].m_name,
     arg_key |-> IF f.m_arg_key = "NULL" THEN "NULL" ELSE f.m_argstr,
     arg_index |-> f.m_arg_index,
     arg_present |-> f.m_arg_present,
     ftype |-> fields[f.m_field_id + 1].m_type,
     flist |-> "EPF_IS_LIST" \in fields[f.m_field_id + 1].m_flags]

\* an outcome whose vector is emptied when extract returns false
Extracted_cleared(f, vals, res, err, calls) ==
    [fc |-> f, values |-> IF res = "false" THEN <<>> ELSE vals,
     res |-> res, err |-> err, ret |-> 0, calls |-> calls]

\* the outcome of an extract call: the object and the caller's vector after
\* it, what it returned ("true", "false") or that it threw, and the calls
\* made through the plugin's extract_fields entry point
Extracted(f, vals, res, err, calls) ==
    [fc |-> f, values |-> vals, res |-> res, err |-> err, ret |-> 0, calls |-> calls]

\* sinsp_filter_check_plugin::extract(evt, values, sanitize_strings), with
\* sinsp_plugin::extract_fields inlined; answer is what the plugin's entry
\* point answers if it gets called
extract(f, env, inited, evt, answer, vals) ==
    IF evt.source_idx = sinsp_no_event_source_idx
    THEN Extracted(f, vals, "false", "none", <<>>)
    ELSE IF ~code_compatible(env.extract_event_codes, evt.type)
    THEN Extracted(f, vals, "false", "none", <<>>)
    ELSE
    LET bitmap == populate_bitmap(f.m_compatible_plugin_sources_bitmap,
                                  evt.source_idx, env.extract_event_sources)
        f1 == [f EXCEPT !.m_compatible_plugin_sources_bitmap = bitmap]
        type == env.m_fields[f.m_field_id + 1].m_type
        efield == ExtractField(f, env.m_fields)
    IN
    IF ~bitmap[evt.source_idx + 1]
    THEN Extracted(f1, vals, "false", "none", <<>>)
    ELSE IF not_init_check(inited)
    THEN Extracted(f1, vals, "exception", s_not_init_err, <<>>)
    ELSE IF answer.rc # SS_PLUGIN_SUCCESS \/ Len(answer.res) = 0
    THEN Extracted(f1, vals, "false", "none", <<efield>>)
    ELSE Extracted(f1, [i \in 1..Len(answer.res) |-> extract_value(type, answer.res[i])],
                   "true", "none", <<efield>>)

\* the filter engine calls extract on the filter check for an event; the
\* plugin's answer is drawn only when the call gets to the plugin
filter_check_extract ==
    /\ mode = "extract"
    /\ \E evt \in Events :
       \E answer \in (IF extract(fc, fenv, m_inited, evt, NoExtractAnswer, values).calls # <<>>
                      THEN ExtractAnswers(fenv.m_fields[fc.m_field_id + 1].m_type)
                      ELSE {NoExtractAnswer}) :
          LET r == extract(fc, fenv, m_inited, evt, answer, values)
          IN  /\ fc' = r.fc
              /\ values' = r.values
              /\ fc_last' = [FcOp("extract", r, <<>>) EXCEPT
                                !.evt = evt, !.calls = r.calls, !.answer = answer]
    /\ UNCHANGED <<mode, api, alive, lib_loaded, m_caps, m_inited, m_state,
                   last, prev, api_init_calls, destroy_calls, init_entered,
                   init_ok_ever, retired, load, asked, fenv>>

\* the caller of extract empties its vector between two calls
clear_values ==
    /\ mode = "extract"
    /\ values # <<>>
    /\ values' = <<>>
    /\ fc_last' = [NoFcOp EXCEPT !.op = "clear_values"]
    /\ UNCHANGED <<mode, api, alive, lib_loaded, m_caps, m_inited, m_state,
                   last, prev, api_init_calls, destroy_calls, init_entered,
                   init_ok_ever, retired, load, asked, fc, fenv>>

\* the extract sources and codes resolve_dylib_sources_codes gives a plugin
\* that is no event source
ExtractSourcesCodes ==
    { resolve_dylib_sources_codes(s, c, {CAP_EXTRACTION}, "") :
        s \in { x \in SourcesAnswers : x.kind \in {"nofn", "empty", "array"} },
        c \in CodesAnswers }

\* the field the filter check extracts: a plain field of each type, and a
\* list of uint64
ExtractFieldEntries ==
    { PlainEntry(t, "f", "d") : t \in DOMAIN m_pt_lut }
    \cup {FieldEntry("uint64", "f", "d", "true", FALSE, "null", "null", "null", "null", {})}

\* A filter check built on an extraction plugin with one field of some type,
\* after its field name has been parsed; the plugin has been initialized or
\* not.
InitExtract ==
    /\ mode = "extract"
    /\ api = [symbols |-> RequiredSymbols \cup CapSymbols({CAP_EXTRACTION}),
              has_init_schema |-> FALSE,
              schema |-> [kind |-> "empty", required |-> {}],
              schema_type |-> "SS_PLUGIN_SCHEMA_NONE"]
    /\ alive = TRUE
    /\ lib_loaded = TRUE
    /\ m_caps = {CAP_EXTRACTION}
    /\ m_inited \in BOOLEAN
    /\ m_state = (IF m_inited THEN 1 ELSE NULL)
    /\ last = NoOp
    /\ prev = Brief(NoOp)
    /\ api_init_calls = (IF m_inited THEN 1 ELSE 0)
    /\ destroy_calls = [h \in Handles |-> 0]
    /\ init_entered = m_inited
    /\ init_ok_ever = m_inited
    /\ retired = FALSE
    /\ load = NoLoad
    /\ asked = NoAsked
    /\ fc = NoFc
    /\ \E e \in ExtractFieldEntries, sc \in ExtractSourcesCodes :
          fenv = [m_fields |-> <<NameChars(resolve_field(e).tf)>>,
                  extract_event_sources |-> sc.sources,
                  extract_event_codes |-> sc.codes,
                  event_sources |-> InspectorSources]
    /\ fc_last = NoFcOp
    /\ values = <<>>

NextExtract ==
    \/ filter_check_extract
    \/ clear_values

SpecExtract == InitExtract /\ [][NextExtract]_vars

\* ----------------------------------------------------------- load claims

\* C9 (as claimed): every create that fails to yield a plugin reports it as
\* a null plugin pointer with errstr set.
C9_LoadFailureIsNullAndErrstr ==
    (load.ret # "none" /\ load.failure # "none")
        => (load.ret = "nullptr" /\ load.errstr # "")

\* C10 (as claimed): every plugin create returns has a non-empty name, a
\* valid version and a non-empty capability set within the three
\* capabilities.
C10_LoadedIsDescribable ==
    load.ret = "plugin"
        => /\ load.m_name # ""
           /\ load.version_valid
           /\ load.m_caps # {}
           /\ load.m_caps \subseteq Caps

\* The "arg" member of a field entry asks for a required argument that is
\* neither an index nor a key.
RequiredOnly(e) ==
    e.has_arg /\ e.isRequired = "true" /\ e.isIndex # "true" /\ e.isKey # "true"

\* C11: in the catalog of a loaded plugin every field with ARG_REQUIRED has
\* ARG_INDEX or ARG_KEY, and every field with ARG_INDEX or ARG_KEY has
\* ARG_ALLOWED; a field JSON array holding an entry with isRequired true and
\* neither isIndex nor isKey true does not load.
C11_FieldFlagClosure ==
    /\ load.ret = "plugin" =>
          \A i \in DOMAIN load.m_fields :
             LET fl == load.m_fields[i].m_flags
             IN  /\ "EPF_ARG_REQUIRED" \in fl
                      => ("EPF_ARG_INDEX" \in fl \/ "EPF_ARG_KEY" \in fl)
                 /\ ("EPF_ARG_INDEX" \in fl \/ "EPF_ARG_KEY" \in fl)
                      => "EPF_ARG_ALLOWED" \in fl
    /\ (\E i \in DOMAIN asked.fields.entries : RequiredOnly(asked.fields.entries[i]))
          => load.ret \notin {"none", "plugin"}

\* a plugin loaded whose catalog has a field with a required index argument
C11_Witness ==
    /\ load.ret = "plugin"
    /\ \E i \in DOMAIN load.m_fields :
          {"EPF_ARG_REQUIRED", "EPF_ARG_INDEX"} \subseteq load.m_fields[i].m_flags

\* The field entry lacks a name or a desc, or its type is not one of the ten
\* type names.
BadFieldEntry(e) ==
    \/ e.name = ""
    \/ e.desc = ""
    \/ e.type \notin {"string", "uint64", "reltime", "abstime", "bool",
                      "ipv4addr", "ipv4net", "ipv6addr", "ipv6net", "ipnet"}

\* C12: a plugin declaring EXTRACTION loads only if every element of its
\* field JSON array has a non-empty name, a non-empty desc and one of the ten
\* type names; with a violating element the load fails and no field catalog
\* is exposed.
C12_FieldEntriesWellFormed ==
    CAP_EXTRACTION \in asked.caps =>
        /\ load.ret = "plugin" =>
              /\ asked.fields.kind = "array"
              /\ \A i \in DOMAIN asked.fields.entries :
                    ~BadFieldEntry(asked.fields.entries[i])
        /\ (\E i \in DOMAIN asked.fields.entries :
                BadFieldEntry(asked.fields.entries[i]))
              => (load.ret \notin {"none", "plugin"} /\ load.m_fields = <<>>)

\* an EXTRACTION plugin loaded with a field of type string in its catalog
C12_Witness ==
    /\ load.ret = "plugin"
    /\ CAP_EXTRACTION \in load.m_caps
    /\ \E i \in DOMAIN load.m_fields : load.m_fields[i].m_type = "PT_CHARBUF"

\* the code set a capability gets when the plugin names no event types
DefaultCodes(sources) ==
    IF sources = {} \/ "syscall" \in sources
    THEN {"PPME_GENERIC_E", "PPME_SYSCALL_OPEN_E", "PPME_PLUGINEVENT_E"}
    ELSE {"PPME_PLUGINEVENT_E"}

\* C13: for EXTRACTION and for PARSING of a loaded plugin, when the plugin
\* advertises no event-type codes the resolved code set is the full event set
\* if the resolved source set is empty or contains "syscall" and otherwise
\* the plugin-event code alone; a resolved code set is never empty.
C13_DefaultEventCodes ==
    load.ret = "plugin" =>
        /\ CAP_EXTRACTION \in load.m_caps =>
              /\ asked.xcodes.kind \in {"nofn", "null"} =>
                    load.m_extract_event_codes = DefaultCodes(load.m_extract_event_sources)
              /\ load.m_extract_event_codes # {}
        /\ CAP_PARSING \in load.m_caps =>
              /\ asked.pcodes.kind \in {"nofn", "null"} =>
                    load.m_parse_event_codes = DefaultCodes(load.m_parse_event_sources)
              /\ load.m_parse_event_codes # {}

\* a plugin loaded whose parsing sources leave out syscall and that names no
\* event types for parsing, while extraction takes the full event set
C13_Witness ==
    /\ load.ret = "plugin"
    /\ {CAP_EXTRACTION, CAP_PARSING} \subseteq load.m_caps
    /\ asked.pcodes.kind = "null" /\ asked.xcodes.kind = "nofn"
    /\ load.m_parse_event_sources = {"s2"}
    /\ load.m_parse_event_codes = {"PPME_PLUGINEVENT_E"}
    /\ load.m_extract_event_sources = {}
    /\ Cardinality(load.m_extract_event_codes) = 3

\* ------------------------------------------------------ lifecycle claims

CapabilityOps ==
    {"get_last_error", "as_scap_source", "get_progress", "event_to_string",
     "list_open_params", "extract_fields", "parse_event"}


\* C1: when an init call that returned true is directly followed by another
\* init call, the second returns false with the 'initialized twice' error and
\* does not enter the plugin's init entry point.
C1_InitTwiceRejected ==
    (prev.op = "init" /\ prev.res = "ok" /\ last.op = "init")
        => (last.res = s_init_twice_err /\ "init" \notin last.calls)

C1_Witness ==
    /\ prev.op = "init" /\ prev.res = "ok"
    /\ last.op = "init" /\ last.res = s_init_twice_err
    /\ api_init_calls = 1

C3_FailedInitLeavesUninitialized ==
    (prev.op = "init" /\ prev.res = s_init_failed)
        => /\ (last.op \in CapabilityOps => last.res = s_not_init_err)
           /\ (last.op = "init" => last.res # s_init_twice_err)

\* C4: a destroy that directly follows a destroy changes nothing and invokes
\* no entry point, and no state handle is ever passed to the plugin's destroy
\* entry point more than once.
C4_DestroyIdempotent ==
    /\ \A h \in Handles : destroy_calls[h] <= 1
    /\ (prev.op = "destroy" /\ last.op = "destroy")
          => (last.calls = {} /\ m_state = NULL /\ ~m_inited)

C4_Witness ==
    /\ prev.op = "destroy" /\ last.op = "destroy"
    /\ \E h \in Handles : destroy_calls[h] = 1

\* C5 (as claimed): once an init has succeeded and destroy has been called, no
\* later init call succeeds or enters the plugin's init entry point.
C5_NoInitAfterDestroy ==
    (retired /\ last.op = "init")
        => (last.res # "ok" /\ "init" \notin last.calls)

\* C6 (as claimed): the host holds no plugin state handle when a failed init
\* returns.
C6_FailedInitReleasesHandle ==
    (last.op = "init" /\ last.res = s_init_failed) => m_state = NULL

\* C6 (amended): when the plugin's init returns failure with a non-null state
\* handle, the host stores the handle, uses it during the failing init call
\* only to fetch the error text through get_last_error, and still holds it,
\* unreleased, when init returns; destroy is what releases it.
C6_FailedInitKeepsHandle ==
    /\ (last.op = "init" /\ last.res = s_init_failed /\ last.ret # NULL)
          => /\ m_state = last.ret
             /\ last.calls \ {"get_init_schema"} = {"init", "get_last_error"}
             /\ destroy_calls[last.ret] = 0
    /\ (last.op \in {"destroy", "~sinsp_plugin"} /\ prev.op = "init"
           /\ prev.res = s_init_failed)
          => m_state = NULL

C6_Witness ==
    /\ last.op = "init" /\ last.res = s_init_failed /\ last.ret # NULL
    /\ m_state = last.ret

\* The config violates the plugin's JSON init schema: the plugin hands out a
\* JSON object schema and the config (an empty one counting as {}) is a JSON
\* object lacking a required property.
ViolatesSchema(config, a) ==
    /\ a.has_init_schema
    /\ a.schema_type = "SS_PLUGIN_SCHEMA_JSON"
    /\ a.schema.kind = "object"
    /\ config.kind \in {"empty", "object"}
    /\ \E k \in a.schema.required : k \notin config.keys

C8_TablesIffExtractionOrParsing ==
    (last.op = "init" /\ "init" \in last.calls)
        => (last.tables <=> (CAP_EXTRACTION \in m_caps \/ CAP_PARSING \in m_caps))

C8_Witness ==
    /\ last.op = "init" /\ "init" \in last.calls
    /\ m_caps = {CAP_EXTRACTION} /\ last.tables

\* -------------------------------------------------- filter check claims

\* the last call was a parse_field_name of a reference that names field j
ParsedAgainst(j) ==
    /\ fc_last.op = "parse_field_name"
    /\ fc_last.str # <<>>
    /\ <<Head(fc_last.str)>> = fenv.m_fields[j].m_name

HasChar(s, c) == \E i \in 1..Len(s) : s[i] = c

\* C14: parsing a field reference with no '[' in it against a field flagged
\* ARG_REQUIRED fails with the "requires an argument" error and leaves no
\* argument recorded as present.
C14_RequiredArgMissing ==
    \A j \in DOMAIN fenv.m_fields :
        (/\ ParsedAgainst(j)
         /\ "EPF_ARG_REQUIRED" \in fenv.m_fields[j].m_flags
         /\ ~HasChar(fc_last.str, "["))
        => /\ fc_last.res = "exception"
           /\ fc_last.err = " requires an argument but none provided"
           /\ ~fc.m_arg_present

\* the reference f was parsed against a field f with a required key argument
C14_Witness ==
    /\ ParsedAgainst(1)
    /\ fc_last.str = <<"f">>
    /\ {"EPF_ARG_REQUIRED", "EPF_ARG_KEY"} \subseteq fenv.m_fields[1].m_flags
    /\ fc_last.res = "exception"

\* the token of a field reference: what comes before its first space
Token(s) ==
    IF HasChar(s, " ")
    THEN SubSeq(s, 1, (CHOOSE i \in 1..Len(s) :
                          s[i] = " " /\ \A k \in 1..(i - 1) : s[k] # " ") - 1)
    ELSE s

\* C15: parsing a field reference whose token has a bracketed argument
\* against a field with neither ARG_ALLOWED nor ARG_REQUIRED fails, and no
\* parse against such a field ends with arg_present true.
C15_ArgNotAllowed ==
    \A j \in DOMAIN fenv.m_fields :
        (/\ ParsedAgainst(j)
         /\ fenv.m_fields[j].m_flags \cap {"EPF_ARG_ALLOWED", "EPF_ARG_REQUIRED"} = {})
        => /\ HasChar(Token(fc_last.str), "[") => fc_last.res = "exception"
           /\ ~fc.m_arg_present

\* the reference g[1] was parsed against the plain field g and rejected
C15_Witness ==
    /\ ParsedAgainst(2)
    /\ fc_last.str = <<"g", "[", "1", "]">>
    /\ fenv.m_fields[2].m_flags = {}
    /\ fc_last.res = "exception"
    /\ fc_last.err = " does not allow nor require an argument but one is provided: "

\* the reference is a one-character name, '[', an argument free of ']' and
\* a closing ']'
IsBracketed(s) ==
    /\ Len(s) >= 3
    /\ s[2] = "["
    /\ s[Len(s)] = "]"
    /\ \A i \in 3..(Len(s) - 1) : s[i] # "]"

BracketArg(s) == SubSeq(s, 3, Len(s) - 1)

\* the number a string of digits writes, from its last digit up
RECURSIVE DecimalValue(_)
DecimalValue(a) ==
    IF a = <<>> THEN 0
    ELSE DecimalValue(SubSeq(a, 1, Len(a) - 1)) * 10
         + (CHOOSE d \in 0..9 : DigitValue(a[Len(a)]) = d)

\* digit strings of equal length: a writes a number no larger than b
RECURSIVE DigitsLeq(_, _)
DigitsLeq(a, b) ==
    \/ a = <<>>
    \/ DigitValue(Head(a)) < DigitValue(Head(b))
    \/ Head(a) = Head(b) /\ DigitsLeq(Tail(a), Tail(b))

\* a is a decimal index: digits only, not empty, no leading 0 but for "0"
\* itself, and no larger than 2^64 - 1 = 18446744073709551615
ValidIndex(a) ==
    /\ a # <<>>
    /\ \A i \in 1..Len(a) : a[i] \in {"0", "1", "2", "3", "4", "5", "6", "7", "8", "9"}
    /\ a[1] = "0" => Len(a) = 1
    /\ \/ Len(a) < 20
       \/ Len(a) = 20 /\ DigitsLeq(a, <<"1", "8", "4", "4", "6", "7", "4", "4", "0", "7",
                                        "3", "7", "0", "9", "5", "5", "1", "6", "1", "5">>)

KeyTaken(a) ==
    /\ fc_last.res = "ok"
    /\ fc_last.ret # -1
    /\ fc.m_arg_present
    /\ fc.m_arg_key = "m_argstr"
    /\ fc.m_argstr = a

C18_IndexAndKeyBothAccepted ==
    \A j \in DOMAIN fenv.m_fields :
        (/\ ParsedAgainst(j)
         /\ {"EPF_ARG_INDEX", "EPF_ARG_KEY"} \subseteq fenv.m_fields[j].m_flags
         /\ IsBracketed(fc_last.str)
         /\ BracketArg(fc_last.str) # <<>>
         /\ ~HasChar(BracketArg(fc_last.str), " "))
        => KeyTaken(BracketArg(fc_last.str))

\* the event of the last extract call has a source index, a type among the
\* plugin's extract codes and a source among its extract sources (or the
\* plugin names no extract sources)
LastEventCompatible ==
    /\ fc_last.evt.source_idx # -1
    /\ fc_last.evt.type \in fenv.extract_event_codes
    /\ \/ fenv.extract_event_sources = {}
       \/ fenv.event_sources[fc_last.evt.source_idx + 1] \in fenv.extract_event_sources

\* C19: whatever extract calls came before, an extract call invokes the
\* plugin's extract_fields entry point only for an event with a set source
\* index, a type code in the plugin's extract codes and a source name in the
\* plugin's extract sources, or any source if that set is empty.
C19_ExtractOnlyCompatible ==
    (fc_last.op = "extract" /\ fc_last.calls # <<>>) => LastEventCompatible

\* the plugin's entry point was called for an event of source s2, the third
\* source of the inspector, s2 being the plugin's only extract source
C19_Witness ==
    /\ fc_last.op = "extract"
    /\ fc_last.calls # <<>>
    /\ fc_last.evt.source_idx = 2
    /\ fenv.extract_event_sources = {"s2"}
    /\ fc.m_compatible_plugin_sources_bitmap = <<FALSE, FALSE, TRUE>>

\* C20: an extract call for an event with no source index, with a type code
\* outside the plugin's extract codes or with an incompatible source returns
\* false and raises nothing, whether the plugin is initialized or not.
C20_IncompatibleIsSilent ==
    (fc_last.op = "extract" /\ ~LastEventCompatible)
        => (fc_last.res = "false" /\ fc_last.err = "none" /\ fc_last.calls = <<>>)

\* an event of an incompatible source was turned down by the filter check of
\* a plugin that is not initialized
C20_Witness ==
    /\ fc_last.op = "extract"
    /\ ~m_inited
    /\ fc_last.evt.source_idx = 1
    /\ fc_last.evt.type \in fenv.extract_event_codes
    /\ fenv.extract_event_sources = {"s2"}
    /\ fc_last.res = "false"

\* the length extract gives a value of a field type: 8 bytes, 4 bytes, the
\* length of the string, or the length the plugin wrote in the buffer
LengthByType(type, item) ==
    CASE type \in {"PT_UINT64", "PT_RELTIME", "PT_ABSTIME"} -> 8
      [] type \in {"PT_BOOL", "PT_IPV4ADDR"} -> 4
      [] type = "PT_CHARBUF" -> Len(item.str)
      [] type \in {"PT_IPV4NET", "PT_IPV6ADDR", "PT_IPV6NET", "PT_IPNET"} -> item.len

\* C21: after an extract that returned true the caller's vector holds
\* exactly the res_len values the plugin wrote, in the plugin's order, each
\* with the length its field type gives it: 8 bytes for uint64, reltime and
\* abstime, 4 bytes for bool and ipv4addr, the string's length for string
\* and the plugin's buffer length for ipv4net, ipv6addr, ipv6net and ipnet.
C21_ValuesByType ==
    (fc_last.op = "extract" /\ fc_last.res = "true") =>
        LET type == fenv.m_fields[fc.m_field_id + 1].m_type
            res == fc_last.answer.res
        IN  /\ Len(values) = Len(res)
            /\ Len(res) > 0
            /\ \A i \in 1..Len(res) :
                  /\ values[i].len = LengthByType(type, res[i])
                  /\ values[i].ptr = (IF "ptr" \in DOMAIN res[i] THEN res[i].ptr ELSE res[i])

\* a uint64 list field for which the plugin wrote 7 and 8: two 8-byte values
C21_Witness ==
    /\ fc_last.op = "extract"
    /\ fc_last.res = "true"
    /\ fenv.m_fields[1].m_type = "PT_UINT64"
    /\ "EPF_IS_LIST" \in fenv.m_fields[1].m_flags
    /\ values = <<[len |-> 8, ptr |-> [u64 |-> 7]], [len |-> 8, ptr |-> [u64 |-> 8]]>>

\* every entry of the bitmap is what is_source_compatible says of the source
\* of its index, and the bitmap is no longer than the inspector's sources
BitmapRight ==
    LET bitmap == fc.m_compatible_plugin_sources_bitmap
    IN  /\ Len(bitmap) <= Len(fenv.event_sources)
        /\ DOMAIN bitmap = 1..Len(bitmap)
        /\ \A i \in 1..Len(bitmap) :
              bitmap[i] <=> (fenv.extract_event_sources = {}
                             \/ fenv.event_sources[i] \in fenv.extract_event_sources)
        /\ (fc_last.op = "extract" /\ fc_last.evt.source_idx # -1
            /\ fc_last.evt.type \in fenv.extract_event_codes)
              => Len(bitmap) > fc_last.evt.source_idx

\* a step leaves every entry the bitmap has where and as it is
BitmapKept ==
    LET bitmap == fc.m_compatible_plugin_sources_bitmap
    IN  /\ Len(fc'.m_compatible_plugin_sources_bitmap) >= Len(bitmap)
        /\ \A i \in 1..Len(bitmap) : fc'.m_compatible_plugin_sources_bitmap[i] = bitmap[i]

\* C26: after any sequence of extract calls the bitmap covers the source
\* indices from 0 up without a gap, each entry is is_source_compatible of the
\* plugin's extract sources and the name of the source of that index, and no
\* later call recomputes or changes an entry.
C26_BitmapMemoised == [](BitmapRight) /\ [][BitmapKept]_vars

\* the bitmap of a plugin that extracts from syscall only, after an event of
\* the third source was seen
C26_Witness ==
    /\ fc_last.op = "extract"
    /\ fc_last.evt.source_idx = 2
    /\ fenv.extract_event_sources = {"syscall"}
    /\ fc.m_compatible_plugin_sources_bitmap = <<TRUE, FALSE, FALSE>>

\* C27: an extract call that does not return true (the event was turned
\* down, the plugin's extract_fields failed or wrote no value) leaves the
\* caller's vector as it was; only a call that returns true rewrites it.
C27_ValuesKeptOnFalse ==
    [][(fc_last'.op = "extract" /\ fc_last'.res # "true") => values' = values]_vars

\* the plugin's extract_fields failed and the vector still holds the values
\* of an earlier call
C27_Witness ==
    /\ fc_last.op = "extract"
    /\ fc_last.res = "false"
    /\ fc_last.calls # <<>>
    /\ fc_last.answer.rc = SS_PLUGIN_FAILURE
    /\ values # <<>>

\* C22 (as claimed): new_filtercheck gives a filter check for a plugin with
\* the EXTRACTION capability and gives NULL, raising nothing, for a plugin
\* without it.
C22_NewFiltercheckNullWithoutExtraction ==
    last.op = "new_filtercheck" =>
        last.res = (IF CAP_EXTRACTION \in m_caps THEN "filtercheck" ELSE "NULL")

\* the capability an operation belongs to
CapabilityOf(op) ==
    CASE op = "as_scap_source" -> CAP_SOURCING
      [] op = "extract_fields" -> CAP_EXTRACTION
      [] op = "parse_event" -> CAP_PARSING

\* C23 (as claimed): on an initialized plugin, as_scap_source without
\* SOURCING, extract_fields without EXTRACTION and parse_event without
\* PARSING are turned down with an error and the plugin's entry point is not
\* invoked.
C23_UndeclaredCapabilityRejected ==
    (/\ last.op \in {"as_scap_source", "extract_fields", "parse_event"}
     /\ m_inited /\ init_ok_ever
     /\ CapabilityOf(last.op) \notin m_caps)
    => (last.calls = {} /\ last.res \notin {"ok", "fail", "crash"})

\* once the library is unloaded the object is gone, it holds no state
\* handle, and the destructor was the last operation
NothingAfterUnload ==
    ~lib_loaded => (~alive /\ m_state = NULL /\ last.op = "~sinsp_plugin")

\* a state handle handed to the plugin's destroy entry point was handed to it
\* once and is no longer the handle the host passes to entry points
ReleasedHandleUnused ==
    \A h \in Handles : destroy_calls[h] >= 1 => (destroy_calls[h] = 1 /\ m_state # h)

\* the destructor, run while a state handle is held, passes that handle to
\* the plugin's destroy entry point and ends with the library unloaded
DropReleasesThenUnloads ==
    (last'.op = "~sinsp_plugin" /\ alive)
        => /\ ~lib_loaded' /\ lib_loaded
           /\ m_state # NULL =>
                 /\ destroy_calls[m_state] = 0
                 /\ destroy_calls'[m_state] = 1
                 /\ "destroy" \in last'.calls
                 /\ m_state' = NULL

C25_WriterOnlyWhenParsing ==
    /\ (last.op = "parse_event" /\ "parse_event" \in last.calls)
          => {"table_reader", "table_writer", "get_owner_last_error"} \subseteq last.conf.keys
    /\ (last.op = "extract_fields" /\ "extract_fields" \in last.calls)
          => ("table_reader" \in last.conf.keys /\ "table_writer" \notin last.conf.keys)
    /\ "table_writer" \in last.conf.keys => last.op = "parse_event"

\* the plugin's extract_fields entry point was called with a table reader,
\* after its parse_event entry point had been offered the writer
C25_Witness ==
    /\ last.op = "extract_fields"
    /\ "extract_fields" \in last.calls
    /\ CAP_PARSING \in m_caps
    /\ last.conf.keys = {"num_fields", "fields", "owner", "get_owner_last_error",
                         "table_reader"}

\* C28: the check of the required api version is the first step of a load:
\* every create that got a library handle asks get_required_api_version
\* before anything else, and a create that fails that check returns a null
\* plugin with errstr set, having invoked no other entry point of the
\* plugin.
C28_ApiVersionCheckedFirst ==
    /\ (load.ret # "none" /\ load.failure # "load")
          => (Len(load.calls) >= 1 /\ load.calls[1] = "get_required_api_version")
    /\ load.failure = "api version"
          => /\ load.ret = "nullptr"
             /\ load.errstr # ""
             /\ load.calls = <<"get_required_api_version">>

\* a create whose plugin requires an api version the host does not support
C28_Witness ==
    /\ load.failure = "api version"
    /\ load.ret = "nullptr"
    /\ load.calls = <<"get_required_api_version">>
    /\ asked.caps = {}

\* The event of the last operation is one the plugin declared for parsing:
\* its source index is set, its type is among the parse codes and its
\* source is compatible with the parse sources.
ParseCompatible ==
    /\ last.evt.source_idx # sinsp_no_event_source_idx
    /\ code_compatible(load.m_parse_event_codes, last.evt.type)
    /\ is_source_compatible(load.m_parse_event_sources,
                            InspectorSources[last.evt.source_idx + 1])

\* C29 (as claimed): the plugin's parse_event entry point is invoked only
\* for events with a set source index, a type among the plugin's parse codes
\* and a source compatible with the plugin's parse sources.
C29_ParseOnlyCompatible ==
    (last.op = "parse_event" /\ "parse_event" \in last.calls /\ CAP_PARSING \in m_caps)
        => ParseCompatible

\* The plugin hands out a non-empty schema text, a JSON object schema, and
\* the config does not satisfy it: it is not JSON, or it is a JSON object (an
\* empty config counting as {}) lacking a required property.
ViolatesSchemaText(config, a) ==
    /\ a.has_init_schema
    /\ a.schema.kind = "object"
    /\ \/ config.kind = "invalid"
       \/ /\ config.kind \in {"empty", "object"}
          /\ \E k \in a.schema.required : k \notin config.keys

\* C30 (as claimed): whatever schema type the plugin reports with a
\* non-empty schema, a config that violates the schema does not reach the
\* plugin's init entry point.
C30_AnySchemaValidated ==
    (last.op = "init" /\ ViolatesSchemaText(last.arg, api))
        => "init" \notin last.calls

\* C30 (amended): when the plugin reports a non-empty schema with a schema
\* type other than SS_PLUGIN_SCHEMA_NONE, a config that violates the schema
\* does not reach the plugin's init entry point and the init call fails.
C30_TypedSchemaValidated ==
    (last.op = "init" /\ ViolatesSchemaText(last.arg, api)
        /\ api.schema_type # "SS_PLUGIN_SCHEMA_NONE")
        => /\ "init" \notin last.calls
           /\ last.res # "ok"

\* an init with a config that is not JSON, on a plugin with a JSON schema
C30_Witness ==
    /\ last.op = "init"
    /\ api.has_init_schema
    /\ api.schema_type = "SS_PLUGIN_SCHEMA_JSON"
    /\ api.schema.kind = "object"
    /\ last.arg.kind = "invalid"
    /\ last.res = "init config is not a valid json"
    /\ "init" \notin last.calls

====
